---- MODULE Spec2Model ----
(***************************************************************************)
(* Model of consulting/careignition/Export_Networks_Individually.py: a     *)
(* notebook export that pages through a FHIR directory API, flattens the   *)
(* entries and writes two CSV files.                                       *)
(*                                                                         *)
(* JSON objects are functions whose DOMAIN is the set of keys present, so  *)
(* d.get(k, default) and d[k] (KeyError when k is absent) differ as they   *)
(* do in Python.  A CSV file is the sequence of the rows written to it, a  *)
(* row the tuple of its field values.                                      *)
(***************************************************************************)
EXTENDS Integers, Sequences, FiniteSets, TLC

VARIABLES
    run,          \* what is executed: the whole script, or one cell alone
    pc,           \* position in the script
    api_url,      \* api_url_1 / api_url_2, the loop variable of the paginator
    all_entries,  \* all_entries / all_data (and `data` of step 4)
    networks,     \* result of extract_networks
    wi,           \* index of the next element of the row loop
    inflight,     \* URLs of HTTP requests issued and not yet answered
    reqlog,       \* URLs requested by the running paginator, in order
    served,       \* the answer the server gave for each URL requested
    fs,           \* the two CSV files on disk
    open,         \* names of the files with an open handle
    opened,       \* names of the files opened so far in this run
    exc,          \* exception travelling to the except clause of step 4
    caught,       \* exception printed by the except clause of step 4
    fault,        \* uncaught exception that ended the run
    fn,           \* pure-function harness: the function applied
    arg,          \* pure-function harness: its argument
    ret           \* pure-function harness: its result

vars == <<run, pc, api_url, all_entries, networks, wi, inflight, reqlog,
          served, fs, open, opened, exc, caught, fault, fn, arg, ret>>

(***************************************************************************)
(* Bounds of the model.                                                    *)
(***************************************************************************)
\* distinct pages a server holds for one query
NumPages == 3
\* requests after which the model stops following a cycle of "next" links
MaxRequests == 4
\* identifiers of an organization in the function harness
MaxIdentifiers == 2
\* extensions of a practitioner role in the function harness
MaxExtensions == 2

(***************************************************************************)
(* Python values.                                                          *)
(***************************************************************************)
None == "<None>"

\* truth value of a URL in `while api_url:`
Truthy(u) == u # None /\ u # ""

EmptyDict == [k \in {} |-> k]

Has(d, k) == k \in DOMAIN d

\* d.get(k, default)
Get(d, k, default) == IF k \in DOMAIN d THEN d[k] ELSE default

\* outcome of an evaluation: a value, or a raised exception
Ret(v) == [ok |-> TRUE, val |-> v]

Raise(e) == [ok |-> FALSE, exc |-> e]

NoExc == [type |-> "none", arg |-> "", raised_in |-> ""]

\* the exception e with the function it was raised in (its traceback)
At(e, f) == [type |-> e.type, arg |-> e.arg, raised_in |-> f]

KeyError(k) == [type |-> "KeyError", arg |-> k]

FileNotFoundError(name) == [type |-> "FileNotFoundError", arg |-> name]

HTTP_OK == 200

\* raise Exception(f"Failed to fetch data. Status code: {response.status_code}")
FetchFailed(status) ==
    [type |-> "Exception",
     arg |-> "Failed to fetch data. Status code: " \o ToString(status)]

(***************************************************************************)
(* Literals of the script.                                                 *)
(***************************************************************************)
ApiUrl1 == "Organization?name=Cottage%20Hospital"

ApiUrl2 == "PractitionerRole?organization=Organization/484295"

OrgFile == "organization_ids.csv"

NetFile == "associated_networks.csv"

OrgHeader == <<"id", "name", "identifiers">>

NetFieldnames == <<"practitionerRole", "network">>

NetworkReferenceUrl ==
    "http://hl7.org/fhir/us/davinci-pdex-plan-net/StructureDefinition/network-reference"

(***************************************************************************)
(* The paginators' handling of one page.                                   *)
(***************************************************************************)
\* all_entries.extend(data.get('entry', []))
OrgExtend(all, data) == all \o Get(data, "entry", <<>>)

RECURSIVE OrgNextFrom(_, _)
OrgNextFrom(links, i) ==
    IF i > Len(links) THEN None
    ELSE IF Get(links[i], "relation", None) = "next"
         THEN Get(links[i], "url", None)
         ELSE OrgNextFrom(links, i + 1)

\* mutant: the loop takes the first link with a url, whatever its relation
OrgNextUrl_AnyRelation(data) ==
    LET links == Get(data, "link", <<>>)
        withUrl == {i \in DOMAIN links : Has(links[i], "url")}
    IN  IF withUrl = {} THEN None
        ELSE links[CHOOSE i \in withUrl : \A j \in withUrl : i <= j]["url"]

\* api_url_1 = None; for link in data.get('link', []): ... break
OrgNextUrl(data) == OrgNextFrom(Get(data, "link", <<>>), 1)

\* mutant: the else branch forgets what was accumulated
OrgPage_DropsOnFailure(url, all, response) ==
    IF response.status_code = HTTP_OK
    THEN [all_entries |-> OrgExtend(all, response.json),
          api_url |-> OrgNextUrl(response.json), stop |-> FALSE]
    ELSE [all_entries |-> <<>>, api_url |-> url, stop |-> TRUE]

\* lines 34-49: the body of the loop once the response is there.  `stop` is
\* the `break` of the else branch, which leaves api_url_1 as it was.
OrgPage(url, all, response) ==
    IF response.status_code = HTTP_OK
    THEN [all_entries |-> OrgExtend(all, response.json),
          api_url |-> OrgNextUrl(response.json), stop |-> FALSE]
    ELSE [all_entries |-> all, api_url |-> url, stop |-> TRUE]

\* if 'entry' in data: all_data.extend(data['entry'])
NetExtend(all, data) == IF Has(data, "entry") THEN all \o data["entry"] ELSE all

RECURSIVE NetNextFrom(_, _)
NetNextFrom(links, i) ==
    IF i > Len(links) THEN Ret(None)
    ELSE IF ~Has(links[i], "relation") THEN Raise(KeyError("relation"))
    ELSE IF links[i]["relation"] = "next"
         THEN IF Has(links[i], "url") THEN Ret(links[i]["url"])
              ELSE Raise(KeyError("url"))
         ELSE NetNextFrom(links, i + 1)

\* mutant: the loop has no `break`, so the last "next" link wins
NetNextUrl_NoBreak(data) ==
    LET links == Get(data, "link", <<>>)
        first == NetNextFrom(links, 1)
        nexts == {i \in DOMAIN links :
                     Has(links[i], "relation") /\ links[i]["relation"] = "next"}
        last == CHOOSE i \in nexts : \A j \in nexts : j <= i
    IN  IF ~first.ok \/ nexts = {} THEN first
        ELSE IF Has(links[last], "url") THEN Ret(links[last]["url"])
        ELSE Raise(KeyError("url"))

\* api_url_2 = None; for link in data.get('link', []): link['relation'] ...
NetNextUrl(data) == NetNextFrom(Get(data, "link", <<>>), 1)

\* mutant: a failing page ends the loop as in the organization pipeline
NetPage_BestEffort(url, all, response) ==
    IF response.status_code = HTTP_OK
    THEN LET next == NetNextUrl(response.json)
         IN  IF next.ok
             THEN Ret([all_data |-> NetExtend(all, response.json),
                       api_url |-> next.val])
             ELSE next
    ELSE Ret([all_data |-> all, api_url |-> None])

\* lines 111-122: the body of the loop once the response is there
NetPage(url, all, response) ==
    IF response.status_code = HTTP_OK
    THEN LET next == NetNextUrl(response.json)
         IN  IF next.ok
             THEN Ret([all_data |-> NetExtend(all, response.json),
                       api_url |-> next.val])
             ELSE next
    ELSE Raise(FetchFailed(response.status_code))

(***************************************************************************)
(* The organization flattener.                                             *)
(***************************************************************************)
\* [identifier.get('value', '') for identifier in identifiers]
IdentifierValues(identifiers) ==
    [i \in 1..Len(identifiers) |-> Get(identifiers[i], "value", "")]

RECURSIVE JoinFrom(_, _, _)
JoinFrom(sep, strs, i) ==
    IF i > Len(strs) THEN ""
    ELSE IF i = Len(strs) THEN strs[i]
    ELSE strs[i] \o sep \o JoinFrom(sep, strs, i + 1)

\* sep.join(strs)
Join(sep, strs) == JoinFrom(sep, strs, 1)

\* mutant: organization['name'] instead of organization.get('name', '')
OrgRow_IndexesName(entry) ==
    LET organization == Get(entry, "resource", EmptyDict)
        org_id == Get(organization, "id", "")
        identifiers == Get(organization, "identifier", <<>>)
        identifier_str == Join(", ", IdentifierValues(identifiers))
    IN  IF Has(organization, "name")
        THEN Ret(<<org_id, organization["name"], identifier_str>>)
        ELSE Raise(KeyError("name"))

\* [org_id, org_name, identifier_str] of one entry
OrgRow(entry) ==
    LET organization == Get(entry, "resource", EmptyDict)
        org_id == Get(organization, "id", "")
        org_name == Get(organization, "name", "")
        identifiers == Get(organization, "identifier", <<>>)
        identifier_str == Join(", ", IdentifierValues(identifiers))
    IN  Ret(<<org_id, org_name, identifier_str>>)

(***************************************************************************)
(* The network extractor.                                                  *)
(***************************************************************************)
\* mutant: the reference is preferred to the display
NetworkOf_ReferenceFirst(ext) ==
    LET value_reference == Get(ext, "valueReference", EmptyDict)
    IN  Get(value_reference, "reference",
            Get(value_reference, "display", "Unknown"))

\* value_reference.get('display', value_reference.get('reference', 'Unknown'))
NetworkOf(ext) ==
    LET value_reference == Get(ext, "valueReference", EmptyDict)
    IN  Get(value_reference, "display",
            Get(value_reference, "reference", "Unknown"))

\* mutant: ext.get('url') instead of ext['url']
RECURSIVE ExtractExtensions_GetUrl(_, _, _, _)
ExtractExtensions_GetUrl(practitioner_role, exts, j, acc) ==
    IF j > Len(exts) THEN Ret(acc)
    ELSE IF Get(exts[j], "url", None) = NetworkReferenceUrl
         THEN IF ~Has(practitioner_role, "id") THEN Raise(KeyError("id"))
              ELSE ExtractExtensions_GetUrl(practitioner_role, exts, j + 1,
                       Append(acc, [practitionerRole |-> practitioner_role["id"],
                                    network |-> NetworkOf(exts[j])]))
         ELSE ExtractExtensions_GetUrl(practitioner_role, exts, j + 1, acc)

RECURSIVE ExtractExtensions(_, _, _, _)
ExtractExtensions(practitioner_role, exts, j, acc) ==
    IF j > Len(exts) THEN Ret(acc)
    ELSE IF ~Has(exts[j], "url") THEN Raise(KeyError("url"))
    ELSE IF exts[j]["url"] = NetworkReferenceUrl
         THEN IF ~Has(practitioner_role, "id") THEN Raise(KeyError("id"))
              ELSE ExtractExtensions(practitioner_role, exts, j + 1,
                       Append(acc, [practitionerRole |-> practitioner_role["id"],
                                    network |-> NetworkOf(exts[j])]))
         ELSE ExtractExtensions(practitioner_role, exts, j + 1, acc)

RECURSIVE ExtractFrom(_, _, _)
ExtractFrom(data, i, acc) ==
    IF i > Len(data) THEN Ret(acc)
    ELSE IF ~Has(data[i], "resource") THEN Raise(KeyError("resource"))
    ELSE LET practitioner_role == data[i]["resource"]
             r == ExtractExtensions(practitioner_role,
                      Get(practitioner_role, "extension", <<>>), 1, acc)
         IN  IF r.ok THEN ExtractFrom(data, i + 1, r.val) ELSE r

extract_networks(data) == ExtractFrom(data, 1, <<>>)

\* csv.DictWriter(csvfile, fieldnames).writerow(network)
NetRow(network) == <<network["practitionerRole"], network["network"]>>

(***************************************************************************)
(* The upstream API.  A server holds up to NumPages pages for a query; the *)
(* page served for a URL is chosen when the URL is first requested and is  *)
(* the same on every later request.  URLs are only names, so the page a    *)
(* "next" link leads to is either the first page not served yet (Fresh) or *)
(* the first page of the query (a cycle).                                  *)
(***************************************************************************)
Absent == [has |-> FALSE, v |-> <<>>]

Present(v) == [has |-> TRUE, v |-> v]

\* a Bundle with the optional keys `entry` and `link`
Bundle(eo, lo) ==
    IF eo.has /\ lo.has
    THEN [resourceType |-> "Bundle", entry |-> eo.v, link |-> lo.v]
    ELSE IF eo.has THEN [resourceType |-> "Bundle", entry |-> eo.v]
    ELSE IF lo.has THEN [resourceType |-> "Bundle", link |-> lo.v]
    ELSE [resourceType |-> "Bundle"]

PageUrl(start, n) == IF n = 1 THEN start ELSE start \o "&_page=" \o ToString(n)

LinkNext(t) == [relation |-> "next", url |-> t]

LinkSelf == [relation |-> "self", url |-> "self"]

\* a link object without `relation`
LinkNoRelation == [url |-> "other"]

\* a "next" link without `url`
LinkNoUrl == [relation |-> "next"]

\* the values of `link` a page may carry, given the URLs it may point to
LinkLists(targets) ==
    {Absent, Present(<<>>), Present(<<LinkSelf>>), Present(<<LinkNoRelation>>),
     Present(<<LinkNoUrl>>), Present(<<LinkNext("")>>)}
    \cup {Present(<<LinkNext(t)>>) : t \in targets}
    \cup {Present(<<LinkSelf, LinkNext(t)>>) : t \in targets}
    \cup {Present(<<LinkNoRelation, LinkNext(t)>>) : t \in targets}
    \cup {Present(<<LinkNext(t), LinkNoRelation>>) : t \in targets}
    \cup {Present(<<LinkNext(p[1]), LinkNext(p[2])>>) :
              p \in {q \in targets \X targets : q[1] # q[2]}}

\* the values of `link` when the whole script runs (a smaller catalogue)
FewLinkLists(targets) ==
    {Absent, Present(<<LinkNoRelation>>)}
    \cup {Present(<<LinkNext(t)>>) : t \in targets}

Org1 ==
    [fullUrl |-> "Organization/484295",
     resource |-> [id |-> "484295", name |-> "Cottage Hospital",
                   identifier |-> <<[value |-> "P1"], [value |-> "N1"]>>]]

Org2 == [fullUrl |-> "Organization/2", resource |-> [id |-> "2"]]

Org3 == [fullUrl |-> "Organization/3"]

Role1 ==
    [fullUrl |-> "PractitionerRole/r1",
     resource |-> [id |-> "r1",
                   extension |-> <<[url |-> NetworkReferenceUrl,
                                    valueReference |-> [display |-> "Net A",
                                                        reference |-> "Organization/9"]]>>]]

Role2 ==
    [fullUrl |-> "PractitionerRole/r2",
     resource |-> [id |-> "r2",
                   extension |-> <<[url |-> "other-extension"],
                                   [url |-> NetworkReferenceUrl]>>]]

\* an entry without `resource`
Role3 == [fullUrl |-> "PractitionerRole/r3"]

\* the values of `entry` a page may carry
EntryLists(start, whole) ==
    IF start = ApiUrl1
    THEN IF whole THEN {Absent, Present(<<Org1>>)}
         ELSE {Absent, Present(<<Org1>>), Present(<<Org2, Org3>>)}
    ELSE IF whole THEN {Present(<<Role1>>), Present(<<Role3>>)}
         ELSE {Absent, Present(<<Role1, Role2>>), Present(<<Role3>>)}

FailStatuses == {404, 500}

\* the URLs the next new page may point to
Targets(start) ==
    LET n == Cardinality(DOMAIN served) + 1
    IN  {start} \cup (IF n < NumPages THEN {PageUrl(start, n + 1)} ELSE {})

\* the responses the server may give to a request for `url`
Answers(start, url) ==
    IF url \in DOMAIN served THEN {served[url]}
    ELSE {[status_code |-> HTTP_OK, json |-> Bundle(eo, lo)] :
              eo \in EntryLists(start, run = "all"),
              lo \in IF run = "all" THEN FewLinkLists(Targets(start))
                                    ELSE LinkLists(Targets(start))}
         \cup {[status_code |-> s] : s \in FailStatuses}

(***************************************************************************)
(* The files.                                                              *)
(***************************************************************************)
NoFile == [exists |-> FALSE, rows |-> <<>>]

File(rows) == [exists |-> TRUE, rows |-> rows]

\* what an earlier run left behind
StaleOrgFile == File(<<OrgHeader, <<"0", "Old Hospital", "X">>, <<"00", "Older", "">>>>)

StaleNetFile == File(<<NetFieldnames, <<"r0", "Old Net">>, <<"r00", "Older Net">>>>)

FileNames == {OrgFile, NetFile}

\* mutant: open(name, 'a') keeps what the file held
Truncate_Appends(files, name) == [files EXCEPT ![name] = File(files[name].rows)]

\* open(name, 'w'): creates or truncates
Truncate(files, name) == [files EXCEPT ![name] = File(<<>>)]

\* writer.writerow(row)
WriteRow(files, name, row) ==
    [files EXCEPT ![name] = File(Append(files[name].rows, row))]

\* where control goes when a cell is finished
AfterOrg == IF run = "all" THEN "org_show" ELSE "done"

AfterNet == IF run = "all" THEN "net_show" ELSE "done"

(***************************************************************************)
(* Initial states: the whole script, In[28] alone or In[33] alone.         *)
(***************************************************************************)
Init ==
    /\ run \in {"all", "cell28", "cell33"}
    /\ pc = IF run = "cell33" THEN "net_loop" ELSE "org_loop"
    /\ api_url = IF run = "cell33" THEN ApiUrl2 ELSE ApiUrl1
    /\ all_entries = <<>>
    /\ networks = <<>>
    /\ wi = 0
    /\ inflight = {}
    /\ reqlog = <<>>
    /\ served = EmptyDict
    /\ \E o \in IF run = "cell33" THEN {NoFile} ELSE {NoFile, StaleOrgFile} :
       \E n \in IF run = "cell28" THEN {NoFile} ELSE {NoFile, StaleNetFile} :
           fs = [f \in FileNames |-> IF f = OrgFile THEN o ELSE n]
    /\ open = {}
    /\ opened = {}
    /\ exc = NoExc
    /\ caught = NoExc
    /\ fault = NoExc
    /\ fn = "none"
    /\ arg = <<>>
    /\ ret = Raise(NoExc)

(***************************************************************************)
(* export_org_id_to_csv(api_url_1), lines 27-73.                           *)
(***************************************************************************)
\* line 31-32: the loop condition holds and the GET is sent
OrgGet ==
    /\ pc = "org_loop"
    /\ Truthy(api_url)
    /\ Len(reqlog) < MaxRequests
    /\ inflight' = inflight \cup {api_url}
    /\ reqlog' = Append(reqlog, api_url)
    /\ pc' = "org_wait"
    /\ UNCHANGED <<run, api_url, all_entries, networks, wi, served, fs, open,
                   opened, exc, caught, fault, fn, arg, ret>>

\* lines 32-49: the response arrives and the page is handled
OrgResponse ==
    /\ pc = "org_wait"
    /\ \E response \in Answers(ApiUrl1, api_url) :
        /\ served' = (api_url :> response) @@ served
        /\ inflight' = inflight \ {api_url}
        /\ LET r == OrgPage(api_url, all_entries, response)
           IN  /\ all_entries' = r.all_entries
               /\ api_url' = r.api_url
               /\ pc' = IF ~r.stop /\ Truthy(r.api_url) THEN "org_loop"
                                                         ELSE "org_open"
    /\ UNCHANGED <<run, networks, wi, reqlog, fs, open, opened, exc, caught,
                   fault, fn, arg, ret>>

\* line 52: with open(filename, mode='w', ...)
OrgOpen ==
    /\ pc = "org_open"
    /\ fs' = Truncate(fs, OrgFile)
    /\ open' = open \cup {OrgFile}
    /\ opened' = opened \cup {OrgFile}
    /\ pc' = "org_header"
    /\ UNCHANGED <<run, api_url, all_entries, networks, wi, inflight, reqlog,
                   served, exc, caught, fault, fn, arg, ret>>

\* line 56: writer.writerow(["id", "name", "identifiers"])
OrgWriteHeader ==
    /\ pc = "org_header"
    /\ fs' = WriteRow(fs, OrgFile, OrgHeader)
    /\ wi' = 1
    /\ pc' = "org_rows"
    /\ UNCHANGED <<run, api_url, all_entries, networks, inflight, reqlog,
                   served, open, opened, exc, caught, fault, fn, arg, ret>>

\* lines 59-71: one iteration of `for entry in all_entries`
OrgWriteRow ==
    /\ pc = "org_rows"
    /\ wi <= Len(all_entries)
    /\ LET r == OrgRow(all_entries[wi])
       IN  IF r.ok
           THEN /\ fs' = WriteRow(fs, OrgFile, r.val)
                /\ wi' = wi + 1
                /\ UNCHANGED <<pc, open, fault>>
           ELSE /\ fault' = At(r.exc, "export_org_id_to_csv")
                /\ open' = open \ {OrgFile}
                /\ pc' = "crashed"
                /\ UNCHANGED <<fs, wi>>
    /\ UNCHANGED <<run, api_url, all_entries, networks, inflight, reqlog,
                   served, opened, exc, caught, fn, arg, ret>>

\* mutant: the file is opened without `with` and never closed
OrgClose_LeavesOpen ==
    /\ pc = "org_rows"
    /\ wi > Len(all_entries)
    /\ pc' = AfterOrg
    /\ UNCHANGED <<run, api_url, all_entries, networks, wi, inflight, reqlog,
                   served, fs, open, opened, exc, caught, fault, fn, arg, ret>>

\* lines 71-73: the loop is over, the `with` block closes the file
OrgClose ==
    /\ pc = "org_rows"
    /\ wi > Len(all_entries)
    /\ open' = open \ {OrgFile}
    /\ pc' = AfterOrg
    /\ UNCHANGED <<run, api_url, all_entries, networks, wi, inflight, reqlog,
                   served, fs, opened, exc, caught, fault, fn, arg, ret>>

\* lines 93-94 and 151: pd.read_csv("organization_ids.csv"); api_url_2 = ...
ShowOrg ==
    /\ pc = "org_show"
    /\ IF fs[OrgFile].exists
       THEN /\ pc' = "net_loop"
            /\ api_url' = ApiUrl2
            /\ all_entries' = <<>>
            /\ reqlog' = <<>>
            /\ served' = EmptyDict
            /\ wi' = 0
            /\ UNCHANGED fault
       ELSE /\ fault' = At(FileNotFoundError(OrgFile), "<module>")
            /\ pc' = "crashed"
            /\ UNCHANGED <<api_url, all_entries, reqlog, served, wi>>
    /\ UNCHANGED <<run, networks, inflight, fs, open, opened, exc, caught,
                   fn, arg, ret>>

(***************************************************************************)
(* Step 4, lines 161-178: fetch_all_data, extract_networks, the writer and *)
(* the except clause.                                                      *)
(***************************************************************************)
\* lines 109-110: the loop condition holds and the GET is sent
NetGet ==
    /\ pc = "net_loop"
    /\ Truthy(api_url)
    /\ Len(reqlog) < MaxRequests
    /\ inflight' = inflight \cup {api_url}
    /\ reqlog' = Append(reqlog, api_url)
    /\ pc' = "net_wait"
    /\ UNCHANGED <<run, api_url, all_entries, networks, wi, served, fs, open,
                   opened, exc, caught, fault, fn, arg, ret>>

\* lines 110-123: the response arrives and the page is handled; an
\* exception unwinds fetch_all_data, whose all_data is lost
NetResponse ==
    /\ pc = "net_wait"
    /\ \E response \in Answers(ApiUrl2, api_url) :
        /\ served' = (api_url :> response) @@ served
        /\ inflight' = inflight \ {api_url}
        /\ LET r == NetPage(api_url, all_entries, response)
           IN  IF r.ok
               THEN /\ all_entries' = r.val.all_data
                    /\ api_url' = r.val.api_url
                    /\ pc' = IF Truthy(r.val.api_url) THEN "net_loop"
                                                       ELSE "net_extract"
                    /\ UNCHANGED exc
               ELSE /\ exc' = At(r.exc, "fetch_all_data")
                    /\ all_entries' = <<>>
                    /\ pc' = "net_except"
                    /\ UNCHANGED api_url
    /\ UNCHANGED <<run, networks, wi, reqlog, fs, open, opened, caught,
                   fault, fn, arg, ret>>

\* line 165: networks = extract_networks(data)
NetExtract ==
    /\ pc = "net_extract"
    /\ LET r == extract_networks(all_entries)
       IN  IF r.ok
           THEN /\ networks' = r.val
                /\ pc' = "net_open"
                /\ UNCHANGED exc
           ELSE /\ exc' = At(r.exc, "extract_networks")
                /\ pc' = "net_except"
                /\ UNCHANGED networks
    /\ UNCHANGED <<run, api_url, all_entries, wi, inflight, reqlog, served,
                   fs, open, opened, caught, fault, fn, arg, ret>>

\* line 168: with open('associated_networks.csv', 'w', newline='')
NetOpen ==
    /\ pc = "net_open"
    /\ fs' = Truncate(fs, NetFile)
    /\ open' = open \cup {NetFile}
    /\ opened' = opened \cup {NetFile}
    /\ pc' = "net_header"
    /\ UNCHANGED <<run, api_url, all_entries, networks, wi, inflight, reqlog,
                   served, exc, caught, fault, fn, arg, ret>>

\* line 172: writer.writeheader()
NetWriteHeader ==
    /\ pc = "net_header"
    /\ fs' = WriteRow(fs, NetFile, NetFieldnames)
    /\ wi' = 1
    /\ pc' = "net_rows"
    /\ UNCHANGED <<run, api_url, all_entries, networks, inflight, reqlog,
                   served, open, opened, exc, caught, fault, fn, arg, ret>>

\* lines 173-174: one iteration of `for network in networks`
NetWriteRow ==
    /\ pc = "net_rows"
    /\ wi <= Len(networks)
    /\ fs' = WriteRow(fs, NetFile, NetRow(networks[wi]))
    /\ wi' = wi + 1
    /\ UNCHANGED <<run, pc, api_url, all_entries, networks, inflight, reqlog,
                   served, open, opened, exc, caught, fault, fn, arg, ret>>

\* lines 174-176: the loop is over, the `with` block closes the file
NetClose ==
    /\ pc = "net_rows"
    /\ wi > Len(networks)
    /\ open' = open \ {NetFile}
    /\ pc' = AfterNet
    /\ UNCHANGED <<run, api_url, all_entries, networks, wi, inflight, reqlog,
                   served, fs, opened, exc, caught, fault, fn, arg, ret>>

\* mutant: no except clause, the exception ends the run
NetExcept_Reraises ==
    /\ pc = "net_except"
    /\ fault' = exc
    /\ exc' = NoExc
    /\ pc' = "crashed"
    /\ UNCHANGED <<run, api_url, all_entries, networks, wi, inflight, reqlog,
                   served, fs, open, opened, caught, fn, arg, ret>>

\* lines 177-178: except Exception as e: print(e)
NetExcept ==
    /\ pc = "net_except"
    /\ caught' = exc
    /\ exc' = NoExc
    /\ pc' = AfterNet
    /\ UNCHANGED <<run, api_url, all_entries, networks, wi, inflight, reqlog,
                   served, fs, open, opened, fault, fn, arg, ret>>

\* lines 186-187: df = pd.read_csv("associated_networks.csv"); print(df)
ShowNet ==
    /\ pc = "net_show"
    /\ IF fs[NetFile].exists
       THEN /\ pc' = "show_unique"
            /\ UNCHANGED fault
       ELSE /\ fault' = At(FileNotFoundError(NetFile), "<module>")
            /\ pc' = "crashed"
    /\ UNCHANGED <<run, api_url, all_entries, networks, wi, inflight, reqlog,
                   served, fs, open, opened, exc, caught, fn, arg, ret>>

\* lines 195-196: df.drop_duplicates(subset=['network']); print(df_unique)
ShowUnique ==
    /\ pc = "show_unique"
    /\ pc' = "done"
    /\ UNCHANGED <<run, api_url, all_entries, networks, wi, inflight, reqlog,
                   served, fs, open, opened, exc, caught, fault, fn, arg, ret>>

Next ==
    \/ OrgGet
    \/ OrgResponse
    \/ OrgOpen
    \/ OrgWriteHeader
    \/ OrgWriteRow
    \/ OrgClose
    \/ ShowOrg
    \/ NetGet
    \/ NetResponse
    \/ NetExtract
    \/ NetOpen
    \/ NetWriteHeader
    \/ NetWriteRow
    \/ NetClose
    \/ NetExcept
    \/ ShowNet
    \/ ShowUnique

Spec == Init /\ [][Next]_vars

\* the interpreter runs the script to its end: a step that can be taken is taken
FairSpec == Spec /\ WF_vars(Next)

(***************************************************************************)
(* The flatteners applied to one argument: OrgRow to an organization       *)
(* entry, extract_networks to a list of practitioner-role entries, with    *)
(* every combination of the optional fields.                               *)
(***************************************************************************)
\* the JSON object d with only the keys in `keys`
Only(d, keys) == [k \in keys |-> d[k]]

SeqsUpTo(S, n) == UNION {[1..m -> S] : m \in 0..n}

IdentifierObjects == {[value |-> "A"], [value |-> "B"], [system |-> "npi"]}

OrgResources ==
    {Only([resourceType |-> "Organization", id |-> "1", name |-> "N",
           identifier |-> il], {"resourceType"} \cup ks) :
        il \in SeqsUpTo(IdentifierObjects, MaxIdentifiers),
        ks \in SUBSET {"id", "name", "identifier"}}

OrgEntryArgs ==
    {[fullUrl |-> "x"]} \cup {[fullUrl |-> "x", resource |-> r] : r \in OrgResources}

ValueReferences ==
    {[type |-> "Organization"], [display |-> "Net A"],
     [reference |-> "Organization/9"],
     [display |-> "Net B", reference |-> "Organization/8"]}

ExtensionObjects ==
    {[valueString |-> "x"], [valueReference |-> [display |-> "Net C"]],
     [url |-> "other-extension"], [url |-> NetworkReferenceUrl]}
    \cup {[url |-> NetworkReferenceUrl, valueReference |-> v] : v \in ValueReferences}

RoleResources ==
    {Only([resourceType |-> "PractitionerRole", id |-> "r1", extension |-> el],
          {"resourceType"} \cup ks) :
        el \in SeqsUpTo(ExtensionObjects, MaxExtensions),
        ks \in SUBSET {"id", "extension"}}

RoleEntryArgs ==
    {Role3} \cup {[fullUrl |-> "x", resource |-> r] : r \in RoleResources}

\* a second entry, to see the order of the entries in the result
SecondRoles == {Role2, Role3, [fullUrl |-> "y", resource |-> [id |-> "r4"]]}

RoleDataArgs ==
    {<<>>} \cup {<<e>> : e \in RoleEntryArgs}
    \cup {<<e, f>> : e \in RoleEntryArgs, f \in SecondRoles}

InitFn ==
    /\ \/ fn = "OrgRow" /\ arg \in OrgEntryArgs
       \/ fn = "extract_networks" /\ arg \in RoleDataArgs
    /\ ret = Raise(NoExc)
    /\ pc = "call"
    /\ run = "function"
    /\ api_url = None
    /\ all_entries = <<>>
    /\ networks = <<>>
    /\ wi = 0
    /\ inflight = {}
    /\ reqlog = <<>>
    /\ served = EmptyDict
    /\ fs = [f \in FileNames |-> NoFile]
    /\ open = {}
    /\ opened = {}
    /\ exc = NoExc
    /\ caught = NoExc
    /\ fault = NoExc

CallOrgRow ==
    /\ pc = "call"
    /\ fn = "OrgRow"
    /\ ret' = OrgRow(arg)
    /\ pc' = "returned"
    /\ UNCHANGED <<run, api_url, all_entries, networks, wi, inflight, reqlog,
                   served, fs, open, opened, exc, caught, fault, fn, arg>>

CallExtractNetworks ==
    /\ pc = "call"
    /\ fn = "extract_networks"
    /\ ret' = extract_networks(arg)
    /\ pc' = "returned"
    /\ UNCHANGED <<run, api_url, all_entries, networks, wi, inflight, reqlog,
                   served, fs, open, opened, exc, caught, fault, fn, arg>>

NextFn == CallOrgRow \/ CallExtractNetworks

SpecFn == InitFn /\ [][NextFn]_vars

(***************************************************************************)
(* Vocabulary of the properties, written from the specification's words    *)
(* and not from the code above.                                            *)
(***************************************************************************)
OrgPcs == {"org_loop", "org_wait", "org_open", "org_header", "org_rows", "org_show"}

\* the organization pipeline is running or was the only thing run
OrgPhase == run = "cell28" \/ (run = "all" /\ pc \in OrgPcs)

\* the network pipeline is running or has run
NetPhase == run = "cell33" \/ (run = "all" /\ pc \notin OrgPcs)

\* export_org_id_to_csv has returned
OrgDone == (run = "cell28" /\ pc = "done") \/ (run = "all" /\ pc = "org_show")

\* the response to the i-th request of the running paginator
Response(i) == served[reqlog[i]]

Answered(i) == i \in 1..Len(reqlog) /\ reqlog[i] \in DOMAIN served

Is200(i) == Answered(i) /\ Response(i).status_code = 200

LinksOf(page) == IF "link" \in DOMAIN page THEN page.link ELSE <<>>

EntriesOf(page) == IF "entry" \in DOMAIN page THEN page.entry ELSE <<>>

IsNextLink(l) == "relation" \in DOMAIN l /\ l.relation = "next"

NextLinks(page) == {i \in DOMAIN LinksOf(page) : IsNextLink(LinksOf(page)[i])}

\* the page carries no link with relation "next"
IsLastPage(page) == NextLinks(page) = {}

FirstNextLink(page) ==
    LinksOf(page)[CHOOSE i \in NextLinks(page) : \A j \in NextLinks(page) : i <= j]

\* the page carries a "next" link that points to a page
HasFollowingPage(page) ==
    /\ NextLinks(page) # {}
    /\ "url" \in DOMAIN FirstNextLink(page)
    /\ FirstNextLink(page).url \notin {"", None}

FollowingPage(page) == FirstNextLink(page).url

\* every link object has the two fields FHIR requires of it
WellFormedLinks(page) ==
    \A i \in DOMAIN LinksOf(page) :
        "relation" \in DOMAIN LinksOf(page)[i] /\ "url" \in DOMAIN LinksOf(page)[i]

\* the entries of the pages answered to requests 1..n, in page order
RECURSIVE PagesEntries(_)
PagesEntries(n) ==
    IF n = 0 THEN <<>> ELSE PagesEntries(n - 1) \o EntriesOf(Response(n).json)

\* every request after the first went to the page the previous page's "next"
\* link points to, and no request followed a page without one
RequestsFollowChain ==
    \A i \in 1..(Len(reqlog) - 1) :
        Is200(i) => /\ HasFollowingPage(Response(i).json)
                    /\ reqlog[i + 1] = FollowingPage(Response(i).json)

OrgPaginatorEnded == OrgPhase /\ pc = "org_open"

NetPaginatorReturned == NetPhase /\ pc = "net_extract"

NetPaginatorRaised ==
    NetPhase /\ pc = "net_except" /\ exc.raised_in = "fetch_all_data"

AllPages200 == \A i \in 1..Len(reqlog) : Is200(i)

\* the paginator stopped on the last page of the chain, normally, holding the
\* concatenation of the pages' entries
StoppedOnLastPage(normally) ==
    LET last == Response(Len(reqlog)).json
    IN  /\ ~HasFollowingPage(last)
        /\ IsLastPage(last) => normally /\ all_entries = PagesEntries(Len(reqlog))

(***************************************************************************)
(* C1                                                                      *)
(***************************************************************************)
\* C1 as stated: for both paginators, on a chain of N pages that all answer
\* 200, where each page but the last carries a "next" link to the following
\* page and the last carries none, exactly the N pages are requested in chain
\* order and the accumulated entries are the concatenation of the pages'
\* entries in page order.
C1_Original ==
    /\ RequestsFollowChain
    /\ (OrgPaginatorEnded /\ AllPages200) => StoppedOnLastPage(TRUE)
    /\ ((NetPaginatorReturned \/ NetPaginatorRaised) /\ AllPages200)
           => StoppedOnLastPage(NetPaginatorReturned)

\* C1 as amended: the same, where for fetch_all_data every link object of the
\* pages carries both `relation` and `url` (it indexes them unguarded and
\* raises KeyError otherwise).
C1_ChainPagination ==
    /\ RequestsFollowChain
    /\ (OrgPaginatorEnded /\ AllPages200) => StoppedOnLastPage(TRUE)
    /\ ((NetPaginatorReturned \/ NetPaginatorRaised) /\ AllPages200
            /\ \A i \in 1..Len(reqlog) : WellFormedLinks(Response(i).json))
           => StoppedOnLastPage(NetPaginatorReturned)

\* fetch_all_data returned after a chain of three or more well-formed pages
C1_Witness ==
    /\ NetPaginatorReturned
    /\ Len(reqlog) >= 3
    /\ AllPages200
    /\ \A i \in 1..Len(reqlog) : WellFormedLinks(Response(i).json)
    /\ Cardinality({reqlog[i] : i \in 1..Len(reqlog)}) = Len(reqlog)
    /\ Len(EntriesOf(Response(1).json)) = 2
    /\ Len(EntriesOf(Response(2).json)) = 1
    /\ IsLastPage(Response(Len(reqlog)).json)

(***************************************************************************)
(* C4: the organization flattener                                          *)
(***************************************************************************)
FieldOrEmpty(d, k) == IF k \in DOMAIN d THEN d[k] ELSE ""

\* the strings joined by ", ", built from the left
RECURSIVE CommaJoined(_, _)
CommaJoined(strs, n) ==
    IF n = 0 THEN ""
    ELSE IF n = 1 THEN strs[1]
    ELSE CommaJoined(strs, n - 1) \o ", " \o strs[n]

\* the row the specification gives for an organization entry
ExpectedOrgRow(entry) ==
    IF "resource" \notin DOMAIN entry THEN <<"", "", "">>
    ELSE LET r == entry.resource
             ids == IF "identifier" \in DOMAIN r THEN r.identifier ELSE <<>>
             values == [i \in DOMAIN ids |-> FieldOrEmpty(ids[i], "value")]
         IN  <<FieldOrEmpty(r, "id"), FieldOrEmpty(r, "name"),
               CommaJoined(values, Len(ids))>>

\* C4: the organization flattener never raises on an absent field; the row is
\* (id or "", name or "", the identifiers' values joined by ", " in list
\* order), each absent field defaulting to the empty string.
C4_OrgFlattenerDefaults ==
    (pc = "returned" /\ fn = "OrgRow") =>
        ret.ok /\ ret.val = ExpectedOrgRow(arg)

\* an entry without `name`, with the identifiers A and B
C4_Witness ==
    /\ pc = "returned"
    /\ fn = "OrgRow"
    /\ "resource" \in DOMAIN arg
    /\ "name" \notin DOMAIN arg.resource
    /\ ret.ok
    /\ ret.val = <<"1", "", "A, B">>

(***************************************************************************)
(* C5, C7: the network extractor                                           *)
(***************************************************************************)
MatchesNetworkReference(ext) ==
    "url" \in DOMAIN ext /\ ext.url = NetworkReferenceUrl

\* display, else reference, else "Unknown"
ExpectedNetwork(ext) ==
    IF "valueReference" \notin DOMAIN ext THEN "Unknown"
    ELSE IF "display" \in DOMAIN ext.valueReference THEN ext.valueReference.display
    ELSE IF "reference" \in DOMAIN ext.valueReference THEN ext.valueReference.reference
    ELSE "Unknown"

ExtensionsOf(entry) ==
    IF "extension" \in DOMAIN entry.resource THEN entry.resource.extension ELSE <<>>

\* one pair per matching extension of the entry, in extension order
ExpectedPairs(entry) ==
    LET matching == SelectSeq(ExtensionsOf(entry), MatchesNetworkReference)
    IN  [j \in DOMAIN matching |->
            [practitionerRole |-> entry.resource.id,
             network |-> ExpectedNetwork(matching[j])]]

RECURSIVE ExpectedNetworks(_, _)
ExpectedNetworks(data, n) ==
    IF n = 0 THEN <<>>
    ELSE ExpectedNetworks(data, n - 1) \o ExpectedPairs(data[n])

\* C5: extract_networks returns exactly one (practitionerRole, network) pair
\* per extension whose url is the network-reference constant, in entry order
\* then extension order; the network is the valueReference's display, else
\* its reference, else "Unknown" (also without valueReference).
C5_OnePairPerMatchingExtension ==
    (pc = "returned" /\ fn = "extract_networks" /\ ret.ok) =>
        ret.val = ExpectedNetworks(arg, Len(arg))

\* two matches in the first entry, one in the second, one without any
\* display or reference
C5_Witness ==
    /\ pc = "returned"
    /\ fn = "extract_networks"
    /\ ret.ok
    /\ Len(arg) = 2
    /\ Len(ret.val) = 3
    /\ ret.val[1] = [practitionerRole |-> "r1", network |-> "Organization/9"]
    /\ ret.val[2] = [practitionerRole |-> "r1", network |-> "Net B"]
    /\ ret.val[3] = [practitionerRole |-> "r2", network |-> "Unknown"]

\* the absences the extractor does not tolerate
MissingRequiredField(data) ==
    \E i \in DOMAIN data :
        \/ "resource" \notin DOMAIN data[i]
        \/ \E j \in DOMAIN ExtensionsOf(data[i]) :
              \/ "url" \notin DOMAIN ExtensionsOf(data[i])[j]
              \/ /\ MatchesNetworkReference(ExtensionsOf(data[i])[j])
                 /\ "id" \notin DOMAIN data[i].resource

\* C7 as stated: `resource` is the only field whose absence faults; with
\* `resource` present on every entry extract_networks completes whichever of
\* the other fields are absent.
C7_Original ==
    (pc = "returned" /\ fn = "extract_networks"
        /\ \A i \in DOMAIN arg : "resource" \in DOMAIN arg[i]) => ret.ok

\* C7 as amended: three absences fault, all in the network extractor, with a
\* KeyError: an entry's `resource`, an extension's `url`, and the resource's
\* `id` when one of its extensions matches.  Every other absence (the
\* extension list, valueReference, display, reference, and every field of an
\* organization entry) is replaced by a default.
C7_FaultsOnlyOnRequiredFields ==
    pc = "returned" =>
        IF fn = "OrgRow" THEN ret.ok
        ELSE /\ ret.ok <=> ~MissingRequiredField(arg)
             /\ ~ret.ok => ret.exc.type = "KeyError"

\* a resource without `id` whose only extension does not match and has no
\* valueReference: nothing faults
C7_Witness ==
    /\ pc = "returned"
    /\ fn = "extract_networks"
    /\ Len(arg) = 1
    /\ "resource" \in DOMAIN arg[1]
    /\ "id" \notin DOMAIN arg[1].resource
    /\ ExtensionsOf(arg[1]) = <<[url |-> "other-extension"]>>
    /\ ret.ok
    /\ ret.val = <<>>

(***************************************************************************)
(* C2, C3: a response other than 200                                       *)
(***************************************************************************)
\* the rows the specification gives for a list of organization entries
ExpectedOrgRows(entries) == [i \in DOMAIN entries |-> ExpectedOrgRow(entries[i])]

\* C2: in the organization pipeline a non-200 response stops pagination
\* without raising and without a further request; the file is still written
\* and holds the header and one row per entry of the pages before the
\* failing one (only the header when the first page fails).
C2_OrgPartialOnFailure ==
    OrgPhase =>
        /\ \A i \in 1..(Len(reqlog) - 1) : Is200(i)
        /\ fault = NoExc /\ pc # "crashed"
        /\ (Answered(Len(reqlog)) /\ ~Is200(Len(reqlog))) =>
              /\ pc \in {"org_open", "org_header", "org_rows", "org_show", "done"}
              /\ OrgDone =>
                    fs[OrgFile] = File(<<OrgHeader>> \o
                        ExpectedOrgRows(PagesEntries(Len(reqlog) - 1)))

\* the third page failed and the entries of the first two are in the file
C2_Witness ==
    /\ OrgDone
    /\ Len(reqlog) = 3
    /\ ~Is200(3)
    /\ Len(fs[OrgFile].rows) = 4
    /\ fs[OrgFile].rows[2] = <<"484295", "Cottage Hospital", "P1, N1">>

\* str(e) of the exception fetch_all_data raises for a status
FetchFailureMessage(status) ==
    "Failed to fetch data. Status code: " \o ToString(status)

\* C3: in the network pipeline a non-200 response on any page aborts the
\* pipeline: fetch_all_data raises with the status code, no further request
\* is made, associated_networks.csv is neither opened nor written in the run
\* and the entries of the earlier pages are not written.
C3_NetAbortsOnFailure ==
    (NetPhase /\ \E i \in 1..Len(reqlog) : Answered(i) /\ ~Is200(i)) =>
        LET failure == [type |-> "Exception",
                        arg |-> FetchFailureMessage(Response(Len(reqlog)).status_code),
                        raised_in |-> "fetch_all_data"]
        IN  /\ \A i \in 1..(Len(reqlog) - 1) : Is200(i)
            /\ pc \in {"net_except", "net_show", "show_unique", "done", "crashed"}
            /\ IF pc = "net_except" THEN exc = failure ELSE caught = failure
            /\ inflight = {}
            /\ NetFile \notin opened
            /\ fs[NetFile] \in {NoFile, StaleNetFile}
            /\ networks = <<>>

\* the second page failed after a first page with entries
C3_Witness ==
    /\ run = "cell33"
    /\ pc = "done"
    /\ Len(reqlog) = 2
    /\ ~Is200(2)
    /\ Len(EntriesOf(Response(1).json)) = 2
    /\ fs[NetFile] = NoFile

(***************************************************************************)
(* C6: the writers                                                         *)
(***************************************************************************)
\* the network pipeline wrote its file and closed it
NetWritten == NetPhase /\ NetFile \in opened /\ NetFile \notin open

\* C6: each writer leaves a file whose first line is the fixed header and
\* whose following lines are one per flat record, in the order of the
\* records, whatever the file held before; no record gives the header alone.
C6_WriterHeaderThenRecords ==
    /\ OrgDone =>
          fs[OrgFile] = File(<<OrgHeader>> \o
              [i \in DOMAIN all_entries |-> OrgRow(all_entries[i]).val])
    /\ NetWritten =>
          fs[NetFile] = File(<<NetFieldnames>> \o
              [i \in DOMAIN networks |->
                  <<networks[i].practitionerRole, networks[i].network>>])

\* four network records written, in order
C6_Witness ==
    /\ run = "cell33"
    /\ pc = "done"
    /\ NetWritten
    /\ Len(networks) = 4
    /\ fs[NetFile].rows = <<NetFieldnames, <<"r1", "Net A">>, <<"r2", "Unknown">>,
                            <<"r1", "Net A">>, <<"r2", "Unknown">>>>

(***************************************************************************)
(* C8: an entry without `resource` in the network pipeline                 *)
(***************************************************************************)
LacksResource(entries) == \E i \in DOMAIN entries : "resource" \notin DOMAIN entries[i]

\* extract_networks has been called on the fetched entries
Extracted == NetPhase /\ pc \notin {"net_loop", "net_wait", "net_extract"}

\* C8 as stated: when a fetched entry lacks `resource` the fault is not
\* handled and the program run ends with it.
C8_Original ==
    (Extracted /\ LacksResource(all_entries) /\ pc # "net_except") =>
        /\ pc = "crashed"
        /\ fault = [type |-> "KeyError", arg |-> "resource",
                    raised_in |-> "extract_networks"]

\* C8 as amended: when a fetched entry lacks `resource`, extract_networks
\* raises a KeyError, which the except clause of step 4 catches and prints:
\* no output file is opened, and the run goes on after the try block; it
\* ends with a fault only where the read of a missing
\* associated_networks.csv raises FileNotFoundError.
C8_MissingResourceIsCaught ==
    (Extracted /\ LacksResource(all_entries)) =>
        LET e == IF pc = "net_except" THEN exc ELSE caught
        IN  /\ e.type = "KeyError" /\ e.raised_in = "extract_networks"
            /\ pc \in {"net_except", "net_show", "show_unique", "done", "crashed"}
            /\ NetFile \notin opened
            /\ fs[NetFile] \in {NoFile, StaleNetFile}
            /\ IF pc = "crashed"
               THEN /\ fault = [type |-> "FileNotFoundError", arg |-> NetFile,
                                raised_in |-> "<module>"]
                    /\ fs[NetFile] = NoFile
               ELSE fault = NoExc

\* the whole script ran to its end although an entry had no `resource`
C8_Witness ==
    /\ run = "all"
    /\ pc = "done"
    /\ LacksResource(all_entries)
    /\ caught = [type |-> "KeyError", arg |-> "resource",
                 raised_in |-> "extract_networks"]

(***************************************************************************)
(* C9: sequential execution                                                *)
(***************************************************************************)
\* C9: at most one request is outstanding; within a pipeline every request
\* is answered before the pipeline's file is opened and none is issued while
\* a file handle is open; the organization file is written and closed before
\* the network pipeline's first request.
C9_StrictlySequential ==
    /\ Cardinality(inflight) <= 1
    /\ Cardinality(open) <= 1
    /\ (inflight # {} \/ pc \in {"org_loop", "org_wait", "net_loop", "net_wait"})
          => open = {}
    /\ inflight # {} <=> pc \in {"org_wait", "net_wait"}
    /\ pc \in {"org_loop", "org_wait"} => OrgFile \notin opened
    /\ pc \in {"net_loop", "net_wait"} => NetFile \notin opened
    /\ OrgFile \in open <=> pc \in {"org_header", "org_rows"}
    /\ NetFile \in open <=> pc \in {"net_header", "net_rows"}
    /\ (run = "all" /\ NetPhase) =>
          /\ OrgFile \in opened /\ OrgFile \notin open
          /\ fs[OrgFile].exists
          /\ Len(fs[OrgFile].rows) >= 1
          /\ fs[OrgFile].rows[1] = OrgHeader

\* the network pipeline's second request is outstanding, in the whole script
C9_Witness ==
    /\ run = "all"
    /\ pc = "net_wait"
    /\ Len(reqlog) = 2
    /\ inflight = {reqlog[2]}
    /\ Len(fs[OrgFile].rows) = 2

(***************************************************************************)
(* C10: termination of the pagination loops                                *)
(***************************************************************************)
LoopPcs == {"org_loop", "org_wait", "net_loop", "net_wait"}

\* a "next" link export_org_id_to_csv can follow: the first link whose
\* relation is "next" has a non-empty url
UsableNextOrg(page) == HasFollowingPage(page)

\* a "next" link fetch_all_data can follow: as above, and that link and each
\* link before it has the `relation` the loop indexes (all links, when none
\* is a "next" link)
UsableNextNet(page) ==
    /\ HasFollowingPage(page)
    /\ \A j \in DOMAIN LinksOf(page) :
          (\A k \in NextLinks(page) : j <= k) => "relation" \in DOMAIN LinksOf(page)[j]

\* the loop is about to request, or has requested, a page it was served before
InCycle == pc \in LoopPcs /\ api_url \in DOMAIN served

\* the loop goes on exactly when the response is a 200 with a usable "next" link
ContinuesExactlyOnUsableNext ==
    /\ pc = "org_loop" => pc' = "org_wait"
    /\ pc = "net_loop" => pc' = "net_wait"
    /\ pc = "org_wait" =>
          (pc' = "org_loop" <=>
              /\ served'[api_url].status_code = 200
              /\ UsableNextOrg(served'[api_url].json))
    /\ pc = "net_wait" =>
          (pc' = "net_loop" <=>
              /\ served'[api_url].status_code = 200
              /\ UsableNextNet(served'[api_url].json))

\* C10: each pagination loop ends exactly when it reaches a non-200 response or
\* a page without a usable "next" link; on a finite acyclic chain of pages it
\* eventually stops; once the "next" links of 200 responses lead back to a
\* page already served the loop never ends and no file is opened.
C10_LoopTermination ==
    /\ [][ContinuesExactlyOnUsableNext]_vars
    /\ (pc \in LoopPcs) ~> (pc \notin LoopPcs \/ InCycle)
    /\ [][InCycle => (InCycle' /\ opened' = opened)]_vars

\* the third request of a loop whose "next" links lead back to the first page
C10_Witness ==
    /\ run = "cell28"
    /\ pc = "org_wait"
    /\ InCycle
    /\ Len(reqlog) = 3
    /\ reqlog[3] = reqlog[1]
    /\ reqlog[2] # reqlog[1]

====
